---- MODULE Spec2Model ----
(***************************************************************************)
(* Model of zerver/forms.py: the form-validation operations of the         *)
(* registration, homepage, password-reset and login forms, run one request *)
(* at a time against the Realm and UserProfile tables.                     *)
(*                                                                         *)
(* Text values (subdomains, e-mail addresses, domains) are sequences of    *)
(* one-character strings, so that length, indexing, substring and          *)
(* case-folding are computed as the code computes them.                    *)
(***************************************************************************)
EXTENDS Integers, Sequences, FiniteSets, TLC

VARIABLES
    settings,   \* django.conf.settings and the configured auth backends
    realms,     \* rows of the Realm table
    users,      \* rows of the UserProfile table
    op,         \* the operation the current request ran ("none": no request)
    args,       \* its arguments
    result,     \* how it ended: [kind, value, line]
    calls       \* the external lookups it made, in order

vars == <<settings, realms, users, op, args, result, calls>>

----------------------------------------------------------------------------
(* Bounds *)

\* longest realm_subdomain value submitted
MaxLen == 3

----------------------------------------------------------------------------
(* Text helpers *)

\* Python's None, as a value comparable with text values
None == <<"None">>

\* characters of the submitted subdomains: a lowercase letter, a digit, the
\* dash, an uppercase letter and the newline
Alphabet == {"w", "1", "-", "W", "\n"}

\* all text values over Alphabet of length at most n
Strings(n) == UNION {[1..k -> Alphabet] : k \in 0..n}

\* unicode.lower() on one character
LowerChar(c) ==
    CASE c = "A" -> "a"
      [] c = "M" -> "m"
      [] c = "I" -> "i"
      [] c = "T" -> "t"
      [] c = "E" -> "e"
      [] c = "D" -> "d"
      [] c = "U" -> "u"
      [] c = "W" -> "w"
      [] OTHER -> c

\* unicode.lower()
Lower(s) == [i \in 1..Len(s) |-> LowerChar(s[i])]

\* Python's `p in s` on text
Contains(s, p) ==
    \E i \in 0..(Len(s) - Len(p)) : SubSeq(s, i + 1, i + Len(p)) = p

\* positions of "@" in s
AtPositions(s) == {i \in 1..Len(s) : s[i] = "@"}

\* position of the last "@" of s, 0 when there is none
LastAt(s) ==
    IF AtPositions(s) = {} THEN 0
    ELSE CHOOSE i \in AtPositions(s) : \A j \in AtPositions(s) : j <= i

\* s.rsplit("@", 1)[0]
RsplitAtHead(s) == IF LastAt(s) = 0 THEN s ELSE SubSeq(s, 1, LastAt(s) - 1)

\* s.split("@")[-1]
SplitAtLast(s) == SubSeq(s, LastAt(s) + 1, Len(s))

\* the character class [a-z0-9-] of the subdomain pattern
SubdomainCharClass == {"w", "a", "b", "1", "-"}

\* re.match('^[a-z0-9-]*$', s): '$' matches at the end of the text and also
\* just before a newline that ends the text
re_match(s) ==
    \/ \A i \in 1..Len(s) : s[i] \in SubdomainCharClass
    \/ /\ Len(s) > 0
       /\ s[Len(s)] = "\n"
       /\ \A i \in 1..(Len(s) - 1) : s[i] \in SubdomainCharClass

----------------------------------------------------------------------------
(* Messages *)

SIGNUP_STRING ==
    "Your e-mail does not match any existing open organization."

MIT_VALIDATION_ERROR ==
    "That user does not exist at MIT or is a mailing list."

WRONG_SUBDOMAIN_ERROR ==
    "Your Zulip account is not a member of the organization associated with this subdomain."

DISPOSABLE_ERROR == "Please use your real email address."

\* the message of a deactivated realm names the realm
DeactivatedError(realm) ==
    "Sorry for the trouble, but " \o realm.name \o " has been deactivated."

error_strings ==
    IF settings.REALMS_HAVE_SUBDOMAINS
    THEN [too_short |-> "Subdomain needs to have length 3 or greater.",
          extremal_dash |-> "Subdomain cannot start or end with a '-'.",
          bad_character |-> "Subdomain can only have lowercase letters, numbers, and '-'s.",
          unavailable |-> "Subdomain unavailable. Please choose a different one."]
    ELSE [too_short |-> "Short name needs at least 3 characters.",
          extremal_dash |-> "Short name cannot start or end with a '-'.",
          bad_character |-> "Short name can only have lowercase letters, numbers, and '-'s.",
          unavailable |-> "Short name unavailable. Please choose a different one."]

----------------------------------------------------------------------------
(* Outcomes of an operation *)

\* the operation returned v at source line l
Return(v, l, c) == [kind |-> "return", value |-> v, line |-> l, calls |-> c]

\* the operation raised django's ValidationError with message m at line l
Invalid(m, l, c) ==
    [kind |-> "ValidationError", value |-> m, line |-> l, calls |-> c]

\* the operation let an exception of class k escape at line l
Escapes(k, l, c) == [kind |-> k, value |-> None, line |-> l, calls |-> c]

NoResult == [kind |-> "none", value |-> None, line |-> 0]

----------------------------------------------------------------------------
(* Text values of the model *)

MitDomain == <<"m", "i", "t", ".", "e", "d", "u">>
OtherDomain == <<"x", ".", "i", "o">>
DisposableDomain == <<"m", ".", "c", "c">>

\* the literal "@mit.edu" of not_mit_mailing_list
AtMitEdu == <<"@">> \o MitDomain

EmailMit == <<"a">> \o AtMitEdu                                \* a@mit.edu
EmailMitUpper == <<"A", "@", "M", "I", "T", ".", "E", "D", "U">> \* A@MIT.EDU
EmailMitPrefix == <<"a">> \o AtMitEdu \o <<".", "i", "o">>      \* a@mit.edu.io
EmailOther == <<"b", "@">> \o OtherDomain                      \* b@x.io
EmailDisposable == <<"d", "@">> \o DisposableDomain            \* d@m.cc

Emails == {EmailMit, EmailMitUpper, EmailMitPrefix, EmailOther, EmailDisposable}

\* string ids of the realms that may exist
MitStringId == <<"w", "1", "w">>
OtherStringId == <<"w", "-", "w">>

Domains == {None, MitDomain, OtherDomain}
Subdomains == {None, MitStringId, OtherStringId}
RequestSubdomains == {<<>>, MitStringId, OtherStringId}

\* answers of the name server to the TXT query
DNSOutcomes == {"NOERROR", "NXDOMAIN", "SERVFAIL", "TIMEOUT"}

\* set_password stores a salted hash of the raw password, never the raw text
make_password(raw) == "pbkdf2_sha256$" \o raw

UNUSABLE_PASSWORD == "!"
RawPasswords == {"new"}

----------------------------------------------------------------------------
(* Lookups outside forms.py *)

\* zerver.lib.name_restrictions.is_reserved_subdomain
is_reserved_subdomain(subdomain) == subdomain \in {<<"w", "w", "w">>}

\* zerver.lib.name_restrictions.is_disposable_domain
is_disposable_domain(domain) == domain \in {DisposableDomain}

\* zerver.models.split_email_to_domain
split_email_to_domain(email) == Lower(SplitAtLast(email))

\* zerver.models.resolve_email_to_domain
resolve_email_to_domain(email) == split_email_to_domain(email)

\* zerver.models.get_realm: the rows with that domain (none: None)
get_realm(domain) == {r \in realms : r.domain = domain}

\* zerver.models.get_realm_by_string_id: the rows with that id (none: None)
get_realm_by_string_id(string_id) == {r \in realms : r.string_id = string_id}

\* zerver.models.completely_open
completely_open(domain) ==
    \E r \in get_realm(domain) : ~r.invite_required /\ ~r.restricted_to_domain

\* zerver.models.get_unique_open_realm: the only active realm, when it is open
get_unique_open_realm ==
    LET active == {r \in realms : ~r.deactivated}
    IN  IF Cardinality(active) # 1 THEN {}
        ELSE {r \in active : ~r.invite_required /\ ~r.restricted_to_domain}

\* zerver.models.get_user_profile_by_email: email__iexact (none: DoesNotExist)
get_user_profile_by_email(email) ==
    {u \in users : Lower(u.email) = Lower(email)}

\* the realm row of a user
RealmOf(u) == CHOOSE r \in realms : r.string_id = u.realm

\* Realm.subdomain
RealmSubdomain(realm) ==
    IF settings.REALMS_HAVE_SUBDOMAINS THEN realm.string_id ELSE None

\* zerver.lib.utils.check_subdomain
check_subdomain(realm_subdomain, user_subdomain) ==
    IF settings.REALMS_HAVE_SUBDOMAINS /\ realm_subdomain # None
    THEN \/ realm_subdomain = <<>> /\ user_subdomain = None
         \/ realm_subdomain = user_subdomain
    ELSE TRUE

\* zproject.backends.password_auth_enabled(realm)
password_auth_enabled == settings.EmailAuthBackend

\* bool(password_auth_enabled): forms.py tests the function object itself,
\* and a function object is true whatever the function would return
password_auth_enabled_truth == TRUE

----------------------------------------------------------------------------
(* The operations of forms.py, as outcomes of their arguments *)

\* get_valid_realm without the invite_required test
get_valid_realm_invited(value) == get_realm(resolve_email_to_domain(value))

get_valid_realm(value) ==
    {r \in get_realm(resolve_email_to_domain(value)) : ~r.invite_required}

\* not_mit_mailing_list re-raising every ServerError, NXDOMAIN included
not_mit_mailing_list_reraise(value, dns) ==
    IF Contains(value, AtMitEdu)
    THEN LET username == RsplitAtHead(value)
             lookup == <<"DNS.dnslookup", username, dns>>
         IN  CASE dns = "NOERROR" -> Return(TRUE, 69, <<lookup>>)
               [] dns = "NXDOMAIN" -> Escapes("ServerError", 74, <<lookup>>)
               [] dns = "SERVFAIL" -> Escapes("ServerError", 74, <<lookup>>)
               [] OTHER -> Escapes("TimeoutError", 68, <<lookup>>)
    ELSE Return(TRUE, 75, <<>>)

\* not_mit_mailing_list answering False for a mailing list
not_mit_mailing_list_false(value, dns) ==
    IF Contains(value, AtMitEdu)
    THEN LET username == RsplitAtHead(value)
             lookup == <<"DNS.dnslookup", username, dns>>
         IN  CASE dns = "NOERROR" -> Return(TRUE, 69, <<lookup>>)
               [] dns = "NXDOMAIN" -> Return(FALSE, 72, <<lookup>>)
               [] dns = "SERVFAIL" -> Escapes("ServerError", 74, <<lookup>>)
               [] OTHER -> Escapes("TimeoutError", 68, <<lookup>>)
    ELSE Return(TRUE, 75, <<>>)

not_mit_mailing_list(value, dns) ==
    IF Contains(value, AtMitEdu)
    THEN LET username == RsplitAtHead(value)
             lookup == <<"DNS.dnslookup", username, dns>>
         IN  CASE dns = "NOERROR" -> Return(TRUE, 69, <<lookup>>)
               [] dns = "NXDOMAIN" -> Invalid(MIT_VALIDATION_ERROR, 72, <<lookup>>)
               [] dns = "SERVFAIL" -> Escapes("ServerError", 74, <<lookup>>)
               [] OTHER -> Escapes("TimeoutError", 68, <<lookup>>)
    ELSE Return(TRUE, 75, <<>>)

\* clean_realm_subdomain with the length test off by one
clean_realm_subdomain_min2(subdomain) ==
    LET reserved == <<"is_reserved_subdomain", subdomain>>
        lookup == <<"get_realm_by_string_id", subdomain>>
    IN  IF subdomain = <<>> THEN Return(<<>>, 108, <<>>)
        ELSE IF Len(subdomain) < 2
        THEN Invalid(error_strings.too_short, 110, <<>>)
        ELSE IF subdomain[1] = "-" \/ subdomain[Len(subdomain)] = "-"
        THEN Invalid(error_strings.extremal_dash, 112, <<>>)
        ELSE IF ~re_match(subdomain)
        THEN Invalid(error_strings.bad_character, 114, <<>>)
        ELSE IF is_reserved_subdomain(subdomain)
        THEN Invalid(error_strings.unavailable, 117, <<reserved>>)
        ELSE IF get_realm_by_string_id(subdomain) # {}
        THEN Invalid(error_strings.unavailable, 117, <<reserved, lookup>>)
        ELSE Return(subdomain, 118, <<reserved, lookup>>)

clean_realm_subdomain(subdomain) ==
    LET reserved == <<"is_reserved_subdomain", subdomain>>
        lookup == <<"get_realm_by_string_id", subdomain>>
    IN  IF subdomain = <<>> THEN Return(<<>>, 108, <<>>)
        ELSE IF Len(subdomain) < 3
        THEN Invalid(error_strings.too_short, 110, <<>>)
        ELSE IF subdomain[1] = "-" \/ subdomain[Len(subdomain)] = "-"
        THEN Invalid(error_strings.extremal_dash, 112, <<>>)
        ELSE IF ~re_match(subdomain)
        THEN Invalid(error_strings.bad_character, 114, <<>>)
        ELSE IF is_reserved_subdomain(subdomain)
        THEN Invalid(error_strings.unavailable, 117, <<reserved>>)
        ELSE IF get_realm_by_string_id(subdomain) # {}
        THEN Invalid(error_strings.unavailable, 117, <<reserved, lookup>>)
        ELSE Return(subdomain, 118, <<reserved, lookup>>)

clean_email(data, domain, subdomain, dns) ==
    IF get_unique_open_realm # {} THEN Return(data, 146, <<>>)
    ELSE IF completely_open(domain) THEN Return(data, 150, <<>>)
    ELSE IF \E r \in get_realm_by_string_id(subdomain) : completely_open(r.domain)
    THEN Return(data, 156, <<>>)
    ELSE IF get_valid_realm(data) = {} THEN Invalid(SIGNUP_STRING, 161, <<>>)
    ELSE IF \E r \in get_valid_realm(data) : ~r.is_zephyr_mirror_realm
    THEN Return(data, 165, <<>>)
    ELSE LET check == not_mit_mailing_list(data, dns)
         IN  IF check.kind # "return" THEN check
             ELSE IF check.value THEN Return(data, 171, check.calls)
             ELSE Invalid(SIGNUP_STRING, 174, check.calls)

email_is_not_disposable(email) ==
    IF is_disposable_domain(split_email_to_domain(email))
    THEN Invalid(DISPOSABLE_ERROR, 179, <<>>)
    ELSE Return(None, 178, <<>>)

\* get_users as django's PasswordResetForm has it: usable passwords only
get_users_usable(email) ==
    Return({u \in users : /\ Lower(u.email) = Lower(email)
                          /\ u.is_active
                          /\ ~u.is_bot
                          /\ u.password # UNUSABLE_PASSWORD}, 217, <<>>)

get_users(email) ==
    IF ~password_auth_enabled_truth THEN Return({}, 212, <<>>)
    ELSE Return({u \in users : /\ Lower(u.email) = Lower(email)
                               /\ u.is_active
                               /\ ~u.is_bot}, 217, <<>>)

\* clean_username testing the subdomain before the deactivation
clean_username_subdomain_first(email, request_subdomain) ==
    IF get_user_profile_by_email(email) = {} THEN Return(email, 230, <<>>)
    ELSE LET user_profile == CHOOSE u \in get_user_profile_by_email(email) : TRUE
             realm == RealmOf(user_profile)
         IN  IF ~check_subdomain(request_subdomain, RealmSubdomain(realm))
             THEN Invalid(WRONG_SUBDOMAIN_ERROR, 243, <<>>)
             ELSE IF realm.deactivated
             THEN Invalid(DeactivatedError(realm), 238, <<>>)
             ELSE Return(email, 244, <<>>)

clean_username(email, request_subdomain) ==
    IF get_user_profile_by_email(email) = {} THEN Return(email, 230, <<>>)
    ELSE LET user_profile == CHOOSE u \in get_user_profile_by_email(email) : TRUE
             realm == RealmOf(user_profile)
         IN  IF realm.deactivated
             THEN Invalid(DeactivatedError(realm), 238, <<>>)
             ELSE IF ~check_subdomain(request_subdomain, RealmSubdomain(realm))
             THEN Invalid(WRONG_SUBDOMAIN_ERROR, 243, <<>>)
             ELSE Return(email, 244, <<>>)

\* zerver.lib.actions.do_change_password: set the hash on the user object and,
\* with commit, write it to the user's row
do_change_password(user, raw, commit) ==
    IF commit
    THEN (users \ {user}) \cup {[user EXCEPT !.password = make_password(raw)]}
    ELSE users

----------------------------------------------------------------------------
(* The tables and settings a server can hold *)

RealmRows(string_id, domain) ==
    [string_id : {string_id}, domain : {domain},
     name : {IF domain = MitDomain THEN "MIT" ELSE "Other"},
     invite_required : BOOLEAN, restricted_to_domain : BOOLEAN,
     is_zephyr_mirror_realm : BOOLEAN, deactivated : BOOLEAN]

UserRows(email, realm) ==
    [email : {email}, realm : {realm}, is_active : BOOLEAN, is_bot : BOOLEAN,
     password : {UNUSABLE_PASSWORD, make_password("old")}]

\* at most one row of a set of candidate rows
AtMostOne(rows) == {{}} \cup {{r} : r \in rows}

Settings == [REALMS_HAVE_SUBDOMAINS : BOOLEAN, EmailAuthBackend : BOOLEAN]

\* a server on which nobody has an account yet: any realms, no users
InitSignup ==
    /\ settings \in {st \in Settings : st.EmailAuthBackend}
    /\ \E mit \in AtMostOne(RealmRows(MitStringId, MitDomain)),
          other \in AtMostOne({r \in RealmRows(OtherStringId, OtherDomain) :
                                  ~r.is_zephyr_mirror_realm /\ ~r.deactivated}) :
          realms = mit \cup other
    /\ users = {}

\* a server with accounts: the realms are open or deactivated, users of any
\* status; stored e-mail addresses are unique ignoring case
InitLogin ==
    /\ settings \in Settings
    /\ \E mit \in {{r} : r \in {x \in RealmRows(MitStringId, MitDomain) :
                                  /\ ~x.invite_required
                                  /\ ~x.restricted_to_domain
                                  /\ ~x.is_zephyr_mirror_realm}},
          other \in AtMostOne({r \in RealmRows(OtherStringId, OtherDomain) :
                                  /\ ~r.invite_required
                                  /\ ~r.restricted_to_domain
                                  /\ ~r.is_zephyr_mirror_realm
                                  /\ ~r.deactivated}) :
          /\ realms = mit \cup other
          /\ \E us \in AtMostOne(UserRows(EmailMit, MitStringId)),
                uo \in AtMostOne({u \in UserRows(EmailOther, OtherStringId) :
                                    /\ other # {}
                                    /\ u.is_active
                                    /\ ~u.is_bot
                                    /\ u.password # UNUSABLE_PASSWORD}) :
                users = us \cup uo

Init ==
    /\ InitSignup \/ InitLogin
    /\ op = "none"
    /\ args = <<>>
    /\ result = NoResult
    /\ calls = <<>>

----------------------------------------------------------------------------
(* Actions: one request runs one operation of a freshly built form *)

\* record the outcome of operation o on arguments a
Finish(o, a, r) ==
    /\ op = "none"
    /\ op' = o
    /\ args' = a
    /\ result' = [kind |-> r.kind, value |-> r.value, line |-> r.line]
    /\ calls' = r.calls

\* a form is built for the next request: no cleaned data, no errors
FormInit ==
    /\ op # "none"
    /\ op' = "none"
    /\ args' = <<>>
    /\ result' = NoResult
    /\ calls' = <<>>
    /\ UNCHANGED <<settings, realms, users>>

CleanRealmSubdomain ==
    \E subdomain \in Strings(MaxLen) :
        /\ Finish("clean_realm_subdomain", [realm_subdomain |-> subdomain],
                  clean_realm_subdomain(subdomain))
        /\ UNCHANGED <<settings, realms, users>>

CleanEmail ==
    \E data \in Emails, domain \in Domains, subdomain \in Subdomains,
       dns \in DNSOutcomes :
        /\ Finish("clean_email",
                  [email |-> data, domain |-> domain, subdomain |-> subdomain],
                  clean_email(data, domain, subdomain, dns))
        /\ UNCHANGED <<settings, realms, users>>

NotMitMailingList ==
    \E value \in Emails, dns \in DNSOutcomes :
        /\ Finish("not_mit_mailing_list", [value |-> value],
                  not_mit_mailing_list(value, dns))
        /\ UNCHANGED <<settings, realms, users>>

EmailIsNotDisposable ==
    \E email \in Emails :
        /\ Finish("email_is_not_disposable", [email |-> email],
                  email_is_not_disposable(email))
        /\ UNCHANGED <<settings, realms, users>>

\* save changing the password of every user instead of self.user
Save_every_user ==
    \E user \in users, raw \in RawPasswords, commit \in BOOLEAN :
        /\ Finish("save", [user |-> user, new_password1 |-> raw, commit |-> commit],
                  Return([user EXCEPT !.password = make_password(raw)], 199, <<>>))
        /\ users' = IF commit
                    THEN {[u EXCEPT !.password = make_password(raw)] : u \in users}
                    ELSE users
        /\ UNCHANGED <<settings, realms>>

Save ==
    \E user \in users, raw \in RawPasswords, commit \in BOOLEAN :
        /\ Finish("save", [user |-> user, new_password1 |-> raw, commit |-> commit],
                  Return([user EXCEPT !.password = make_password(raw)], 199, <<>>))
        /\ users' = do_change_password(user, raw, commit)
        /\ UNCHANGED <<settings, realms>>

GetUsers ==
    \E email \in Emails :
        /\ Finish("get_users", [email |-> email], get_users(email))
        /\ UNCHANGED <<settings, realms, users>>

CleanUsername ==
    \E email \in Emails, request_subdomain \in RequestSubdomains :
        /\ Finish("clean_username",
                  [username |-> email, subdomain |-> request_subdomain],
                  clean_username(email, request_subdomain))
        /\ UNCHANGED <<settings, realms, users>>

Next ==
    \/ FormInit
    \/ CleanRealmSubdomain
    \/ CleanEmail
    \/ NotMitMailingList
    \/ EmailIsNotDisposable
    \/ Save
    \/ GetUsers
    \/ CleanUsername

Spec == Init /\ [][Next]_vars

----------------------------------------------------------------------------
(* Properties of RegistrationForm.clean_realm_subdomain *)

\* the submitted realm_subdomain of the current request
Submitted == args.realm_subdomain

\* the two wordings of the 'too short' message
TooShortText ==
    IF settings.REALMS_HAVE_SUBDOMAINS
    THEN "Subdomain needs to have length 3 or greater."
    ELSE "Short name needs at least 3 characters."

RejectedTooShort == result.kind = "ValidationError" /\ result.value = TooShortText

\* C1 as stated: every submitted value shorter than 3 characters is rejected
\* with the 'too short' error, whatever REALMS_HAVE_SUBDOMAINS is.
C1_AsStated ==
    (op = "clean_realm_subdomain" /\ Len(Submitted) < 3) => RejectedTooShort

\* C1 amended: every non-empty submitted value shorter than 3 characters is
\* rejected with the 'too short' error in the wording REALMS_HAVE_SUBDOMAINS
\* selects; the empty value is not rejected but returned as ''.
C1_ShortRejected ==
    op = "clean_realm_subdomain" =>
        /\ (Submitted # <<>> /\ Len(Submitted) < 3) => RejectedTooShort
        /\ Submitted = <<>> => (result.kind = "return" /\ result.value = <<>>)

C1_Witness ==
    /\ op = "clean_realm_subdomain"
    /\ Len(Submitted) = 2
    /\ RejectedTooShort

\* the rules a subdomain has to meet
LongEnough(s) == Len(s) >= 3
NoExtremalDash(s) == Len(s) = 0 \/ (s[1] # "-" /\ s[Len(s)] # "-")
GoodCharacters(s) ==
    \A i \in 1..Len(s) : s[i] \in {"a", "b", "w", "1", "-"}
Available(s) ==
    /\ s # <<"w", "w", "w">>
    /\ \A r \in realms : r.string_id # s
MeetsAllRules(s) ==
    LongEnough(s) /\ NoExtremalDash(s) /\ GoodCharacters(s) /\ Available(s)

\* C2 as stated: every non-empty value returned is the submitted value and
\* meets the length, dash, character, reserved-name and uniqueness rules, and
\* every submitted value that breaks one of them is rejected with a
\* ValidationError.  The claim is read in the way most favourable to it: the
\* empty value, which is returned as '', does not count as a submitted value
\* that has to be rejected.
C2_AsStated ==
    (op = "clean_realm_subdomain" /\ Submitted # <<>>) =>
        /\ result.kind = "return" =>
               (result.value = Submitted /\ MeetsAllRules(Submitted))
        /\ ~MeetsAllRules(Submitted) => result.kind = "ValidationError"

\* the error the precedence too short, extremal dash, bad character,
\* unavailable selects for s
ErrorByPrecedence(s) ==
    IF ~LongEnough(s) THEN error_strings.too_short
    ELSE IF ~NoExtremalDash(s) THEN error_strings.extremal_dash
    ELSE IF ~GoodCharacters(s) THEN error_strings.bad_character
    ELSE error_strings.unavailable

----------------------------------------------------------------------------
(* Properties of HomepageForm.clean_email and not_mit_mailing_list *)

\* the TXT lookup the current request made, if any
MadeLookup == calls # <<>> /\ calls[1][1] = "DNS.dnslookup"
LookupAnswer == calls[1][3]

\* the address passes the MIT mailing-list check
PassesMitCheck(email) ==
    \/ ~Contains(email, AtMitEdu)
    \/ MadeLookup /\ LookupAnswer = "NOERROR"

\* the realms without invite_required that the domain of the address names
OpenToDomainOf(email) ==
    {r \in realms : r.domain = Lower(SplitAtLast(email)) /\ ~r.invite_required}

IsCompletelyOpen(r) == ~r.invite_required /\ ~r.restricted_to_domain

\* the address is allowed to join
AllowedToJoin ==
    \/ get_unique_open_realm # {}
    \/ \E r \in realms : r.domain = args.domain /\ IsCompletelyOpen(r)
    \/ \E r \in realms :
          /\ r.string_id = args.subdomain
          /\ \E d \in realms : d.domain = r.domain /\ IsCompletelyOpen(d)
    \/ \E r \in OpenToDomainOf(args.email) :
          ~r.is_zephyr_mirror_realm \/ PassesMitCheck(args.email)

ReturnedEmail == result.kind = "return" /\ result.value = args.email

\* C3 as stated: clean_email returns the email if and only if it is allowed to
\* join, and rejects with a ValidationError in every other case (SIGNUP_STRING
\* when no realm without invite_required matches the domain of the email).
C3_AsStated ==
    op = "clean_email" =>
        /\ AllowedToJoin <=> ReturnedEmail
        /\ ~AllowedToJoin =>
               /\ result.kind = "ValidationError"
               /\ OpenToDomainOf(args.email) = {} => result.value = SIGNUP_STRING

\* the TXT lookup failed with something other than NXDOMAIN
LookupBroke == MadeLookup /\ LookupAnswer \notin {"NOERROR", "NXDOMAIN"}

\* C3 amended: clean_email returns the email if and only if it is allowed to
\* join; otherwise it rejects with a ValidationError (SIGNUP_STRING when no
\* realm without invite_required matches the domain of the email), except
\* that a TXT lookup failing with anything but NXDOMAIN ends the operation
\* with that DNS error instead.
C3_AllowedIffReturned ==
    op = "clean_email" =>
        /\ AllowedToJoin <=> ReturnedEmail
        /\ (~AllowedToJoin /\ ~LookupBroke) =>
               /\ result.kind = "ValidationError"
               /\ OpenToDomainOf(args.email) = {} => result.value = SIGNUP_STRING
        /\ (~AllowedToJoin /\ LookupBroke) =>
               result.kind \in {"ServerError", "TimeoutError"}

C3_Witness ==
    /\ op = "clean_email"
    /\ ~AllowedToJoin
    /\ \E r \in realms : r.domain = MitDomain /\ r.invite_required
    /\ args.email = EmailMitUpper
    /\ result.kind = "ValidationError"
    /\ result.value = SIGNUP_STRING

ValidationOps ==
    {"clean_realm_subdomain", "clean_email", "not_mit_mailing_list",
     "email_is_not_disposable", "clean_username"}

\* C4 as stated: no validation operation ends with anything but a return or
\* a ValidationError, also when the TXT lookup fails other than by NXDOMAIN.
C4_AsStated ==
    op \in ValidationOps => result.kind \in {"return", "ValidationError"}

\* C4 amended: a validation operation ends with a return or a
\* ValidationError, NXDOMAIN included, with one exception: when the TXT
\* lookup fails with anything but NXDOMAIN, not_mit_mailing_list and the
\* clean_email that called it end with that DNS error.
C4_OnlyValidationErrors ==
    op \in ValidationOps =>
        /\ ~LookupBroke => result.kind \in {"return", "ValidationError"}
        /\ LookupBroke =>
               /\ op \in {"clean_email", "not_mit_mailing_list"}
               /\ result.kind \in {"ServerError", "TimeoutError"}

C4_Witness ==
    /\ op = "clean_email"
    /\ LookupBroke
    /\ LookupAnswer = "SERVFAIL"
    /\ result.kind = "ServerError"

----------------------------------------------------------------------------
(* Properties of the password-reset and login forms *)

\* the stored users a reset for the requested email is meant for
ResetCandidates ==
    {u \in users : /\ u.is_active
                   /\ ~u.is_bot
                   /\ Lower(u.email) = Lower(args.email)}

C8_AsStated ==
    (op = "get_users" /\ ~password_auth_enabled) =>
        (result.kind = "return" /\ result.value = {})

\* the stored users with the username as email, ignoring case
Account == {u \in users : Lower(u.email) = Lower(args.username)}

\* the request came in on another subdomain than that of the realm
WrongSubdomain(realm) ==
    /\ settings.REALMS_HAVE_SUBDOMAINS
    /\ args.subdomain # realm.string_id

\* C6: clean_username returns the email when no user profile has it; rejects
\* with the 'has been deactivated' message when the realm of the user is
\* deactivated, matching subdomain or not; rejects with WRONG_SUBDOMAIN_ERROR
\* when the realm is active and the subdomain does not match; and returns
\* the email otherwise.
C6_LoginDecision ==
    op = "clean_username" =>
        /\ Account = {} => (result.kind = "return" /\ result.value = args.username)
        /\ \A u \in Account : \A r \in realms : r.string_id = u.realm =>
               /\ r.deactivated =>
                      /\ result.kind = "ValidationError"
                      /\ result.value = DeactivatedError(r)
               /\ (~r.deactivated /\ WrongSubdomain(r)) =>
                      /\ result.kind = "ValidationError"
                      /\ result.value = WRONG_SUBDOMAIN_ERROR
               /\ (~r.deactivated /\ ~WrongSubdomain(r)) =>
                      (result.kind = "return" /\ result.value = args.username)

C6_Witness ==
    /\ op = "clean_username"
    /\ \E u \in Account : \E r \in realms :
           /\ r.string_id = u.realm
           /\ r.deactivated
           /\ WrongSubdomain(r)
    /\ result.kind = "ValidationError"
    /\ result.line = 238

\* C7 as stated: no form operation, LoggingSetPasswordForm.save included,
\* changes the stored realms or user profiles.
C7_AsStated == [][realms' = realms /\ users' = users]_vars

\* the users table after the password of user became the hash of raw
WithPassword(user, raw) ==
    {IF u = user THEN [u EXCEPT !.password = make_password(raw)] ELSE u : u \in users}

\* C7 amended: no form operation changes the stored realms, and none but
\* LoggingSetPasswordForm.save changes the stored user profiles; save with
\* commit replaces the password of the user of the form by the hash of the
\* new password and changes nothing else, save without commit changes no
\* stored row.
C7_OnlySaveWrites ==
    [][/\ realms' = realms
       /\ op' # "save" => users' = users
       /\ op' = "save" =>
              users' = IF args'.commit
                       THEN WithPassword(args'.user, args'.new_password1)
                       ELSE users]_vars

C7_Witness ==
    /\ op = "save"
    /\ args.commit
    /\ Cardinality(users) = 2
    /\ \E u \in users : u.password = make_password(args.new_password1)
    /\ \E u \in users : u.password # make_password(args.new_password1)

====
